---- MODULE Spec2Model ----
(***************************************************************************)
(* Model of flask_cognito.py: the CognitoAuth extension (init_app,         *)
(* get_token, the principal hooks, the error handler), the                 *)
(* cognito_auth_required decorator and _cognito_auth_required.             *)
(*                                                                         *)
(* Python values are tagged records.  A str is the sequence of its         *)
(* characters, so that str.split() and str.lower() are computed.           *)
(***************************************************************************)
EXTENDS Integers, Sequences, FiniteSets, TLC

VARIABLES
    config,      \* app.config: a dict from option names to values
    extensions,  \* app.extensions: a dict; key 'cognito_auth' -> the CognitoAuth fields
    errhandlers, \* exception classes with a handler registered through app.errorhandler
    phase,       \* "boot" | "serving" | "aborted": position of the application start-up
    initexc,     \* the exception init_app raised, or None
    headers,     \* per request: request.headers (a dict), meaningful while a request runs
    route,       \* per request: which view the request was routed to ("idle" when none)
    plan,        \* per request: the calls the view still has to make
    stack,       \* _request_ctx_stack: per execution context, its top (NoCtx when empty)
    token,       \* per request: the local variable token of _cognito_auth_required
    exc,         \* per request: the exception that propagated out of the view, or None
    verdict,     \* per request: what cognito_jwt_decode last returned or raised
    attached,    \* per request: the principal attached by each successful authentication
    seen,        \* per request: what the view read through cognito_user / cognito_identity
    response     \* per request: what the application answered

vars == <<config, extensions, errhandlers, phase, initexc, headers, route, plan,
          stack, token, exc, verdict, attached, seen, response>>

appvars == <<config, extensions, errhandlers, phase, initexc>>
reqvars == <<headers, route, plan, stack, token, exc, verdict, attached, seen, response>>

---------------------------------------------------------------------------
(* Bounds *)

NReq == 2        \* requests in flight at once
MaxChunks == 3   \* pieces a header value is put together from

Requests == 1..NReq

---------------------------------------------------------------------------
(* Python values *)

None == [t |-> "None"]
Str(s) == [t |-> "str", v |-> s]
Bool(b) == [t |-> "bool", v |-> b]

\* Python truthiness of the values app.config holds here
Truthy(val) ==
    CASE val.t = "None" -> FALSE
      [] val.t = "str"  -> Len(val.v) > 0
      [] val.t = "bool" -> val.v

\* dict.get(key) with the default None
DictGet(d, k) == IF k \in DOMAIN d THEN d[k] ELSE None

\* dict[key] = value
DictSet(d, k, val) == [x \in DOMAIN d \cup {k} |-> IF x = k THEN val ELSE d[x]]

\* dict.setdefault(key, value)
DictSetDefault(d, k, val) == IF k \in DOMAIN d THEN d ELSE DictSet(d, k, val)

EmptyDict == [x \in {} |-> None]

---------------------------------------------------------------------------
(* Strings *)

UpperChars == <<"A","B","C","D","E","F","G","H","I","J","K","L","M",
                "N","O","P","Q","R","S","T","U","V","W","X","Y","Z">>
LowerChars == <<"a","b","c","d","e","f","g","h","i","j","k","l","m",
                "n","o","p","q","r","s","t","u","v","w","x","y","z">>

LowerChar(c) ==
    IF \E i \in DOMAIN UpperChars : UpperChars[i] = c
    THEN LowerChars[CHOOSE i \in DOMAIN UpperChars : UpperChars[i] = c]
    ELSE c

\* str.lower()
Lower(s) == [i \in DOMAIN s |-> LowerChar(s[i])]

\* the characters str.split() with no argument separates on
IsSpace(c) == c \in {" ", "\t", "\n", "\r", "\f"}

\* str.split(): the maximal runs of non-whitespace characters, in order
RECURSIVE SplitFrom(_, _, _, _)
SplitFrom(s, i, word, acc) ==
    IF i > Len(s)
    THEN IF word = <<>> THEN acc ELSE Append(acc, word)
    ELSE IF IsSpace(s[i])
         THEN SplitFrom(s, i + 1, <<>>, IF word = <<>> THEN acc ELSE Append(acc, word))
         ELSE SplitFrom(s, i + 1, Append(word, s[i]), acc)

Split(s) == SplitFrom(s, 1, <<>>, <<>>)

---------------------------------------------------------------------------
(* String constants of the program and of the inputs *)

Authorization == <<"A","u","t","h","o","r","i","z","a","t","i","o","n">>
Bearer == <<"B","e","a","r","e","r">>

\* inputs: other spellings, another scheme, an overriding header name and prefix
BearerLower == <<"b","e","a","r","e","r">>
BearerUpper == <<"B","E","A","R","E","R">>
Basic == <<"B","a","s","i","c">>
XAuth == <<"X","-","A","u","t","h">>
Region1 == <<"e","u">>
Pool1 == <<"e","u","_","1">>
Client1 == <<"c","1">>

\* inputs: tokens
TokA == <<"t","A">>
TokB == <<"t","B">>
TokT == <<"t","T">>
TokX == <<"x">>

---------------------------------------------------------------------------
(* Results of calls: a returned value or a raised exception *)

Ok(val) == [ok |-> TRUE, val |-> val]
Raise(e) == [ok |-> FALSE, exc |-> e]

\* an f-string: its text with numbered holes, and the values formatted into them
Fmt(text, args) == [text |-> text, args |-> args]

\* CognitoAuthError.__init__: status_code defaults to 401, headers to None
DefaultStatusCode == 401

CognitoAuthError(error, description) ==
    [t |-> "CognitoAuthError", error |-> error, description |-> description,
     status_code |-> DefaultStatusCode, headers |-> None]

\* the exceptions the interpreter raises by itself
AttributeError(what) == [t |-> "AttributeError", msg |-> what]
IndexError == [t |-> "IndexError", msg |-> "list index out of range"]

---------------------------------------------------------------------------
(* CognitoAuth.init_app *)

CONFIG_DEFAULTS ==
    <<  <<"COGNITO_CHECK_TOKEN_EXPIRATION", Bool(TRUE)>>,
        <<"COGNITO_JWT_HEADER_NAME", Str(Authorization)>>,
        <<"COGNITO_JWT_HEADER_PREFIX", Str(Bearer)>>  >>

\* for k, v in CONFIG_DEFAULTS.items(): app.config.setdefault(k, v)
RECURSIVE ApplyDefaults(_, _)
ApplyDefaults(cfg, i) ==
    IF i > Len(CONFIG_DEFAULTS) THEN cfg
    ELSE ApplyDefaults(DictSetDefault(cfg, CONFIG_DEFAULTS[i][1], CONFIG_DEFAULTS[i][2]), i + 1)

ConfigException(config_name) ==
    [t |-> "Exception",
     msg |-> Fmt("{0} not found in app configuration but it is required.", <<config_name>>)]

\* _get_required_config rejecting only an absent option, not an empty one
GetRequiredConfig_AbsentOnly(cfg, config_name) ==
    LET val == DictGet(cfg, config_name)
    IN  IF val = None THEN Raise(ConfigException(config_name)) ELSE Ok(val)

GetRequiredConfig(cfg, config_name) ==
    LET val == DictGet(cfg, config_name)
    IN  IF ~Truthy(val) THEN Raise(ConfigException(config_name)) ELSE Ok(val)

\* the options init_app requires, in the order it reads them
RequiredConfig ==
    <<"COGNITO_REGION", "COGNITO_USERPOOL_ID", "COGNITO_APP_CLIENT_ID",
      "COGNITO_JWT_HEADER_NAME", "COGNITO_JWT_HEADER_PREFIX">>

\* what init_app does to an application whose configuration is cfg0: the
\* configuration it leaves, and the extension object it built or the exception
\* of the first required option that is missing
InitAppResult(cfg0) ==
    LET cfg == ApplyDefaults(cfg0, 1)
        got == [i \in DOMAIN RequiredConfig |-> GetRequiredConfig(cfg, RequiredConfig[i])]
        bad == {i \in DOMAIN RequiredConfig : ~got[i].ok}
    IN  IF bad # {}
        THEN [config |-> cfg,
              result |-> Raise(got[CHOOSE i \in bad : \A j \in bad : i <= j].exc)]
        ELSE [config |-> cfg,
              result |-> Ok([t |-> "CognitoAuth",
                             region |-> got[1].val,
                             userpool_id |-> got[2].val,
                             app_client_id |-> got[3].val,
                             jwt_header_name |-> got[4].val,
                             jwt_header_prefix |-> got[5].val,
                             check_expiration |->
                                 IF "COGNITO_CHECK_TOKEN_EXPIRATION" \in DOMAIN cfg
                                 THEN cfg["COGNITO_CHECK_TOKEN_EXPIRATION"]
                                 ELSE Bool(TRUE)])]

InitApp ==
    /\ phase = "boot"
    /\ LET r == InitAppResult(config)
       IN  /\ config' = r.config
           /\ IF r.result.ok
              THEN /\ extensions' = DictSet(extensions, "cognito_auth", r.result.val)
                   /\ errhandlers' = errhandlers \cup {"CognitoAuthError"}
                   /\ initexc' = None
                   /\ phase' = "serving"
              ELSE /\ initexc' = r.result.exc
                   /\ phase' = "aborted"
                   /\ UNCHANGED <<extensions, errhandlers>>
    /\ UNCHANGED reqvars

\* the extension the _cog proxy resolves to
Cog == extensions["cognito_auth"]

---------------------------------------------------------------------------
(* CognitoAuth.get_token *)

\* request.headers.get(name)
HeadersGet(hs, name) == DictGet(hs, name)

InvalidHeader(description) == CognitoAuthError("Invalid Cognito JWT header", description)

PrefixMismatch(got, want) ==
    InvalidHeader(Fmt("Unsupported authorization type. Header prefix \"{0}\" does not match \"{1}\"",
                      <<Lower(got), Lower(want)>>))

\* get_token comparing the prefix as written, without lower()
get_token_CaseSensitive(cog, hs) ==
    LET auth_header_value == HeadersGet(hs, cog.jwt_header_name.v)
    IN  IF auth_header_value = None
        THEN Raise(AttributeError("'NoneType' object has no attribute 'split'"))
        ELSE LET parts == Split(auth_header_value.v)
             IN  IF Len(parts) = 0
                 THEN Raise(IndexError)
                 ELSE IF parts[1] # cog.jwt_header_prefix.v
                 THEN Raise(PrefixMismatch(parts[1], cog.jwt_header_prefix.v))
                 ELSE IF Len(parts) = 1
                 THEN Raise(InvalidHeader(Fmt("Token missing", <<>>)))
                 ELSE IF Len(parts) > 2
                 THEN Raise(InvalidHeader(Fmt("Token contains spaces", <<>>)))
                 ELSE Ok(Str(parts[2]))

\* get_token taking the last part for the token, however many parts there are
get_token_LastPart(cog, hs) ==
    LET auth_header_value == HeadersGet(hs, cog.jwt_header_name.v)
    IN  IF auth_header_value = None
        THEN Raise(AttributeError("'NoneType' object has no attribute 'split'"))
        ELSE LET parts == Split(auth_header_value.v)
             IN  IF Len(parts) = 0
                 THEN Raise(IndexError)
                 ELSE IF Lower(parts[1]) # Lower(cog.jwt_header_prefix.v)
                 THEN Raise(PrefixMismatch(parts[1], cog.jwt_header_prefix.v))
                 ELSE IF Len(parts) = 1
                 THEN Raise(InvalidHeader(Fmt("Token missing", <<>>)))
                 ELSE Ok(Str(parts[Len(parts)]))

\* get_token for the extension cog and the request headers hs
get_token(cog, hs) ==
    LET auth_header_name == cog.jwt_header_name.v
        auth_header_prefix == cog.jwt_header_prefix.v
        auth_header_value == HeadersGet(hs, auth_header_name)
    IN  IF auth_header_value = None
        THEN Raise(AttributeError("'NoneType' object has no attribute 'split'"))
        ELSE LET parts == Split(auth_header_value.v)
             IN  IF Len(parts) = 0
                 THEN Raise(IndexError)
                 ELSE IF Lower(parts[1]) # Lower(auth_header_prefix)
                 THEN Raise(PrefixMismatch(parts[1], auth_header_prefix))
                 ELSE IF Len(parts) = 1
                 THEN Raise(InvalidHeader(Fmt("Token missing", <<>>)))
                 ELSE IF Len(parts) > 2
                 THEN Raise(InvalidHeader(Fmt("Token contains spaces", <<>>)))
                 ELSE Ok(Str(parts[2]))

---------------------------------------------------------------------------
(* The principal hooks *)

get_cognito_user(payload) == payload

\* get_identity handing back the descriptor it was given
get_identity_Descriptor(cognito_user) == cognito_user

get_identity(cognito_user) == None

---------------------------------------------------------------------------
(* cognitojwt.decode, the verification collaborator *)

Claims(sub) == [t |-> "dict", sub |-> sub]

\* What the collaborator can do with a token: return its claims or raise
\* CognitoJWTException with a message.  TokT is a token at its expiry: unless
\* testmode skips the check, either outcome can happen, at each call.
cognito_jwt_decode(tok, region, app_client_id, userpool_id, testmode) ==
    CASE tok = Str(TokA) -> {Ok(Claims("alice"))}
      [] tok = Str(TokB) -> {Ok(Claims("bob"))}
      [] tok = Str(TokT) ->
            IF testmode THEN {Ok(Claims("carol"))}
            ELSE {Ok(Claims("carol")), Raise("Token is expired")}
      [] OTHER -> {Raise("Token is malformed")}

---------------------------------------------------------------------------
(* The request context *)

\* a request context object, with the attributes set on it
NewCtx == [t |-> "ctx", attrs |-> EmptyDict]

\* one stack for every execution context, a plain module global
CtxOf_Global(r) == 1

\* the execution context whose stack _request_ctx_stack resolves to for the
\* code running request r: the stack is context-local
CtxOf(r) == r

\* _request_ctx_stack.top
Top(r) == stack[CtxOf(r)]

\* getattr(obj, name, None)
GetAttr(obj, name) == IF obj = None THEN None ELSE DictGet(obj.attrs, name)

\* the cognito_user and cognito_identity proxies, read by the code of request r
cognito_user(r) == GetAttr(Top(r), "current_cognito_user")
cognito_identity(r) == GetAttr(Top(r), "current_cognito_identity")

\* the two assignments, dropping a principal that is already attached
AttachPrincipal_DropIfSet(top, payload) ==
    IF "current_cognito_user" \in DOMAIN top.attrs
    THEN [top EXCEPT !.attrs = DictSet(DictSet(@, "current_cognito_user", None),
                                       "current_cognito_identity", None)]
    ELSE [top EXCEPT !.attrs =
            DictSet(DictSet(@, "current_cognito_user", get_cognito_user(payload)),
                    "current_cognito_identity", get_identity(payload))]

\* the two assignments that end _cognito_auth_required, on the context top
AttachPrincipal(top, payload) ==
    [top EXCEPT !.attrs =
        DictSet(DictSet(@, "current_cognito_user", get_cognito_user(payload)),
                "current_cognito_identity", get_identity(payload))]

---------------------------------------------------------------------------
(* _cognito_auth_required *)

AuthorizationRequired(cog) ==
    CognitoAuthError("Authorization Required",
        Fmt("Request does not contain a well-formed access token in {0} beginning with \"{1}\"",
            <<cog.jwt_header_name.v, cog.jwt_header_prefix.v>>))

\* the wrapping error with a description of its own
InvalidToken_OwnText(message) ==
    CognitoAuthError("Invalid Cognito Authentication Token", Fmt("Token is invalid", <<>>))

InvalidToken(message) ==
    CognitoAuthError("Invalid Cognito Authentication Token", Fmt(message, <<>>))

\* The outcomes of _cognito_auth_required from the token get_token returned, for
\* the extension cog and the context top: each is what the collaborator answered
\* (None when it was not called), the context top left behind, and the
\* exception raised (None when the call returned).
VerifyAndAttach(cog, tok, top) ==
    IF tok = None
    THEN {[verdict |-> None, top |-> top, exc |-> AuthorizationRequired(cog)]}
    ELSE {  IF ~d.ok
            THEN [verdict |-> d, top |-> top, exc |-> InvalidToken(d.exc)]
            ELSE IF top = None
            THEN [verdict |-> d, top |-> top,
                  exc |-> AttributeError("'NoneType' object has no attribute 'current_cognito_user'")]
            ELSE [verdict |-> d, top |-> AttachPrincipal(top, d.val), exc |-> None]
          : d \in cognito_jwt_decode(tok, cog.region, cog.app_client_id,
                                     cog.userpool_id, ~Truthy(cog.check_expiration)) }

---------------------------------------------------------------------------
(* Views: the calls a view makes, in order.  "auth" is a call of             *)
(* _cognito_auth_required(), which goes on as "verify" once get_token has    *)
(* returned; "fn" is the invocation of the view function, which reads the    *)
(* two proxies.                                                              *)

\* a decorator that calls fn before it authenticates
Decorator_FnFirst == <<"fn", "auth">>

\* cognito_auth_required(fn): the decorator authenticates, then calls fn
Decorator == <<"auth", "fn">>

\* the views of the application the requests are routed to
RoutePlan(rt) ==
    CASE rt = "gate"        -> Decorator               \* a decorated view
      [] rt = "gate_manual" -> Decorator \o <<"auth">> \* a decorated view that authenticates again
      [] rt = "manual_gate" -> <<"auth">> \o Decorator \* authenticated by hand before the decorated view
      [] rt = "manual"      -> <<"fn", "auth">>        \* an undecorated view that authenticates by hand

Routes == {"gate", "gate_manual", "manual_gate", "manual"}

\* the views wrapped by the decorator, and which of their "auth" calls is the decorator's
Wrapped(rt) == rt \in {"gate", "gate_manual", "manual_gate"}
GateCall(rt) == IF rt = "manual_gate" THEN 2 ELSE 1

---------------------------------------------------------------------------
(* CognitoAuth._cognito_auth_error_handler, and the framework around it *)

cognito_auth_error_handler(error) ==
    [body |-> << <<"status_code", error.status_code>>,
                 <<"error", error.error>>,
                 <<"description", error.description>> >>,
     status |-> error.status_code,
     headers |-> error.headers]

\* the framework's answer to a view that returned or raised e
Dispatch(e) ==
    IF e = None THEN [body |-> <<>>, status |-> 200, headers |-> None]
    ELSE IF e.t \in errhandlers THEN cognito_auth_error_handler(e)
    ELSE [body |-> <<>>, status |-> 500, headers |-> None]

---------------------------------------------------------------------------
(* Actions *)

\* the framework pushes a request context and routes the request to a view
Begin(r, hs, rt) ==
    /\ headers' = [headers EXCEPT ![r] = hs]
    /\ route' = [route EXCEPT ![r] = rt]
    /\ plan' = [plan EXCEPT ![r] = RoutePlan(rt)]
    /\ stack' = [stack EXCEPT ![r] = NewCtx]
    /\ UNCHANGED <<token, exc, verdict, attached, seen, response>>
    /\ UNCHANGED appvars

\* a request with headers out of pool, for one of views, arrives while the
\* application serves
Receive(r, pool, views) ==
    /\ phase = "serving"
    /\ route[r] = "idle"
    /\ \E hs \in pool, rt \in views : Begin(r, hs, rt)

\* request r calls _cognito_auth_required(), which calls get_token
GetToken(r) ==
    /\ route[r] # "idle"
    /\ plan[r] # <<>> /\ Head(plan[r]) = "auth"
    /\ LET tk == get_token(Cog, headers[r])
       IN  IF tk.ok
           THEN /\ token' = [token EXCEPT ![r] = tk.val]
                /\ plan' = [plan EXCEPT ![r] = <<"verify">> \o Tail(@)]
                /\ exc' = exc
           ELSE /\ exc' = [exc EXCEPT ![r] = tk.exc]
                /\ plan' = [plan EXCEPT ![r] = <<>>]
                /\ token' = token
    /\ UNCHANGED <<headers, route, stack, verdict, attached, seen, response>>
    /\ UNCHANGED appvars

\* _cognito_auth_required() of request r goes on with the token: it has the
\* collaborator verify it and attaches the principal
Verify(r) ==
    /\ route[r] # "idle"
    /\ plan[r] # <<>> /\ Head(plan[r]) = "verify"
    /\ \E o \in VerifyAndAttach(Cog, token[r], Top(r)) :
          /\ verdict' = [verdict EXCEPT ![r] = o.verdict]
          /\ stack' = [stack EXCEPT ![CtxOf(r)] = o.top]
          /\ IF o.exc = None
             THEN /\ attached' = [attached EXCEPT ![r] = Append(@, cognito_user(r)')]
                  /\ plan' = [plan EXCEPT ![r] = Tail(@)]
                  /\ exc' = exc
             ELSE /\ exc' = [exc EXCEPT ![r] = o.exc]
                  /\ plan' = [plan EXCEPT ![r] = <<>>]
                  /\ attached' = attached
    /\ token' = [token EXCEPT ![r] = None]
    /\ UNCHANGED <<headers, route, seen, response>>
    /\ UNCHANGED appvars

\* the view function of request r runs and reads the proxies
InvokeView(r) ==
    /\ route[r] # "idle"
    /\ plan[r] # <<>> /\ Head(plan[r]) = "fn"
    /\ seen' = [seen EXCEPT ![r] =
                  Append(@, [user |-> cognito_user(r), identity |-> cognito_identity(r)])]
    /\ plan' = [plan EXCEPT ![r] = Tail(@)]
    /\ UNCHANGED <<headers, route, stack, token, exc, verdict, attached, response>>
    /\ UNCHANGED appvars

\* the view returned or raised: the framework answers
Respond(r) ==
    /\ route[r] # "idle"
    /\ plan[r] = <<>>
    /\ response[r] = None
    /\ response' = [response EXCEPT ![r] = Dispatch(exc[r])]
    /\ UNCHANGED <<headers, route, plan, stack, token, exc, verdict, attached, seen>>
    /\ UNCHANGED appvars

\* the framework pops the request context: the request is over
Finish(r) ==
    /\ route[r] # "idle"
    /\ response[r] # None
    /\ headers' = [headers EXCEPT ![r] = EmptyDict]
    /\ route' = [route EXCEPT ![r] = "idle"]
    /\ plan' = [plan EXCEPT ![r] = <<>>]
    /\ stack' = [stack EXCEPT ![r] = None]
    /\ token' = [token EXCEPT ![r] = None]
    /\ exc' = [exc EXCEPT ![r] = None]
    /\ verdict' = [verdict EXCEPT ![r] = None]
    /\ attached' = [attached EXCEPT ![r] = <<>>]
    /\ seen' = [seen EXCEPT ![r] = <<>>]
    /\ response' = [response EXCEPT ![r] = None]
    /\ UNCHANGED appvars

---------------------------------------------------------------------------
(* Inputs *)

\* the options of the extension: the provider coordinates, and those with a default
RequiredCoordinates == {"COGNITO_REGION", "COGNITO_USERPOOL_ID", "COGNITO_APP_CLIENT_ID"}

OptionalOptions ==
    {"COGNITO_JWT_HEADER_NAME", "COGNITO_JWT_HEADER_PREFIX", "COGNITO_CHECK_TOKEN_EXPIRATION"}

\* an application configuration: each option absent or one of the given values
OptionValues ==
    [COGNITO_REGION |-> {Str(<<>>), Str(Region1)},
     COGNITO_USERPOOL_ID |-> {Str(<<>>), Str(Pool1)},
     COGNITO_APP_CLIENT_ID |-> {Str(<<>>), Str(Client1)},
     COGNITO_JWT_HEADER_NAME |-> {Str(XAuth)},
     COGNITO_JWT_HEADER_PREFIX |-> {Str(<<>>), Str(Basic)},
     COGNITO_CHECK_TOKEN_EXPIRATION |-> {Bool(FALSE)}]

AppConfigs ==
    UNION { {c \in [ks -> UNION {OptionValues[k] : k \in ks}] :
                \A k \in ks : c[k] \in OptionValues[k]}
            : ks \in SUBSET DOMAIN OptionValues }

\* the pieces header values are put together from: a word, a blank and a word,
\* a blank, a tab
Words == {Bearer, BearerLower, Basic, TokT}

Chunks == Words \cup {<<" ">> \o w : w \in Words} \cup {<<" ">>, <<"\t">>}

RECURSIVE Concat(_)
Concat(ss) == IF ss = <<>> THEN <<>> ELSE Head(ss) \o Concat(Tail(ss))

HeaderValues == {Concat(ss) : ss \in UNION {[1..n -> Chunks] : n \in 0..MaxChunks}}

HeaderNames == {Authorization, XAuth}

\* the headers of a request: none, or one header of either name with any value
AllHeaders ==
    {EmptyDict} \cup {n :> Str(v) : n \in HeaderNames, v \in HeaderValues}

\* the headers of a request: none, or one header of either name, well formed
\* for one of the prefixes
FormedHeaders ==
    {EmptyDict} \cup
    {n :> Str(Concat(ss)) :
        n \in HeaderNames,
        ss \in {<<Bearer, <<" ">>, TokT>>, <<BearerUpper, <<"\t">>, TokA>>,
                <<Bearer, <<" ">>, TokX>>, <<Basic, <<" ">>, TokT>>}}

\* a few requests, for the runs with several requests in flight
SampleHeaders ==
    {EmptyDict} \cup
    {Authorization :> Str(Concat(ss)) :
        ss \in {<<Bearer, <<" ">>, TokA>>, <<BearerLower, <<"\t">>, TokB>>}}

\* the configurations that set the three required options
Complete(c) ==
    /\ RequiredCoordinates \subseteq DOMAIN c
    /\ c["COGNITO_REGION"] = Str(Region1)
    /\ c["COGNITO_USERPOOL_ID"] = Str(Pool1)
    /\ c["COGNITO_APP_CLIENT_ID"] = Str(Client1)

\* the configurations of the runs over every header value: the header options
\* at their defaults or overridden
HeaderConfigs ==
    {c \in AppConfigs :
        /\ Complete(c)
        /\ "COGNITO_CHECK_TOKEN_EXPIRATION" \notin DOMAIN c
        /\ "COGNITO_JWT_HEADER_PREFIX" \in DOMAIN c => c["COGNITO_JWT_HEADER_PREFIX"] = Str(Basic)}

\* the configuration of the runs with several requests in flight: the optional
\* options left to their defaults
SampleConfigs ==
    {c \in AppConfigs :
        /\ Complete(c)
        /\ DOMAIN c \cap OptionalOptions = {}}

---------------------------------------------------------------------------
(* Specifications *)

InitWith(configs) ==
    /\ config \in configs
    /\ extensions = EmptyDict
    /\ errhandlers = {}
    /\ phase = "boot"
    /\ initexc = None
    /\ headers = [r \in Requests |-> EmptyDict]
    /\ route = [r \in Requests |-> "idle"]
    /\ plan = [r \in Requests |-> <<>>]
    /\ stack = [r \in Requests |-> None]
    /\ token = [r \in Requests |-> None]
    /\ exc = [r \in Requests |-> None]
    /\ verdict = [r \in Requests |-> None]
    /\ attached = [r \in Requests |-> <<>>]
    /\ seen = [r \in Requests |-> <<>>]
    /\ response = [r \in Requests |-> None]

Step(r) == GetToken(r) \/ Verify(r) \/ InvokeView(r) \/ Respond(r) \/ Finish(r)

\* several requests in flight, a few headers, every view
Init == InitWith(SampleConfigs)

Next ==
    \/ InitApp
    \/ \E r \in Requests : Receive(r, SampleHeaders, Routes)
    \/ \E r \in Requests : Step(r)

Spec == Init /\ [][Next]_vars

\* one request at a time, every configuration, well-formed headers, every view
InitSeq == InitWith(AppConfigs)

NextSeq ==
    \/ InitApp
    \/ Receive(1, FormedHeaders, Routes)
    \/ Step(1)

SpecSeq == InitSeq /\ [][NextSeq]_vars

\* one request at a time, every header value, the decorated view
InitTok == InitWith(HeaderConfigs)

NextTok ==
    \/ InitApp
    \/ Receive(1, AllHeaders, {"gate"})
    \/ Step(1)

SpecTok == InitTok /\ [][NextTok]_vars

---------------------------------------------------------------------------
(* The vocabulary of the properties.  The parts of a header value are stated *)
(* from the positions of its whitespace, and equality up to letter case from *)
(* the pairs of letters, not through Split and Lower.                        *)

WordStarts(s) == {i \in 1..Len(s) : ~IsSpace(s[i]) /\ (i = 1 \/ IsSpace(s[i - 1]))}

NWords(s) == Cardinality(WordStarts(s))

\* the n-th whitespace-separated part of s, for n in 1..NWords(s)
Word(s, n) ==
    LET i == CHOOSE x \in WordStarts(s) : Cardinality({y \in WordStarts(s) : y < x}) = n - 1
        j == CHOOSE x \in i..Len(s) :
                /\ \A k \in i..x : ~IsSpace(s[k])
                /\ x = Len(s) \/ IsSpace(s[x + 1])
    IN  SubSeq(s, i, j)

SameIgnoringCase(a, b) ==
    /\ Len(a) = Len(b)
    /\ \A i \in 1..Len(a) :
          \/ a[i] = b[i]
          \/ \E k \in DOMAIN UpperChars : {a[i], b[i]} = {UpperChars[k], LowerChars[k]}

IsLowerCase(a) == \A i \in 1..Len(a) : \A k \in DOMAIN UpperChars : a[i] # UpperChars[k]

Active(r) == route[r] # "idle"

\* request r carries the configured header; its value
Carried(r) == Cog.jwt_header_name.v \in DOMAIN headers[r]
Value(r) == headers[r][Cog.jwt_header_name.v].v
Prefix == Cog.jwt_header_prefix.v

\* get_token has been called in request r and has returned or raised
Called(r) == Active(r) /\ (exc[r] # None \/ token[r] # None \/ verdict[r] # None)

\* the exception of request r was raised before the collaborator was called
RaisedByGetToken(r) == exc[r] # None /\ verdict[r] = None

IsInvalidHeader(e) ==
    /\ e.t = "CognitoAuthError"
    /\ e.error = "Invalid Cognito JWT header"
    /\ e.status_code = 401

MismatchText == "Unsupported authorization type. Header prefix \"{0}\" does not match \"{1}\""

IsPrefixMismatch(e) ==
    e.t = "CognitoAuthError" /\ e.description.text = MismatchText

Says(e, text) == e.description = [text |-> text, args |-> <<>>]

---------------------------------------------------------------------------
(* C1: a request that does not carry the configured header ends get_token   *)
(* with the invalid-header CognitoAuthError, status 401, and a description  *)
(* other than the prefix mismatch's; it ends in no other kind of error.     *)
C1_MissingHeaderIsInvalidHeader ==
    \A r \in Requests :
        (Called(r) /\ ~Carried(r)) =>
            (IsInvalidHeader(exc[r]) /\ ~IsPrefixMismatch(exc[r]))

(* C2: a header value that is empty or only whitespace (zero parts) ends    *)
(* get_token with the invalid-header CognitoAuthError "Token missing".      *)
C2_NoPartsIsTokenMissing ==
    \A r \in Requests :
        (Called(r) /\ Carried(r) /\ NWords(Value(r)) = 0) =>
            (IsInvalidHeader(exc[r]) /\ Says(exc[r], "Token missing"))

(* C3: when the first part of the header value differs from the configured  *)
(* prefix by more than letter case, get_token raises the invalid-header     *)
(* CognitoAuthError (401) whose description names the received and the      *)
(* expected prefix, however many parts follow; when it differs by letter    *)
(* case at most, that error is not raised.                                  *)
C3_PrefixMismatch ==
    \A r \in Requests :
        (Called(r) /\ Carried(r) /\ NWords(Value(r)) >= 1) =>
            IF SameIgnoringCase(Word(Value(r), 1), Prefix)
            THEN ~IsPrefixMismatch(exc[r])
            ELSE /\ IsInvalidHeader(exc[r])
                 /\ IsPrefixMismatch(exc[r])
                 /\ Len(exc[r].description.args) = 2
                 /\ SameIgnoringCase(exc[r].description.args[1], Word(Value(r), 1))
                 /\ SameIgnoringCase(exc[r].description.args[2], Prefix)
                 /\ IsLowerCase(exc[r].description.args[1])
                 /\ IsLowerCase(exc[r].description.args[2])

\* a header of three parts whose first part is another scheme was rejected
C3_Witness ==
    \E r \in Requests :
        /\ Called(r) /\ Carried(r) /\ NWords(Value(r)) = 3
        /\ ~SameIgnoringCase(Word(Value(r), 1), Prefix)
        /\ IsPrefixMismatch(exc[r])

(* C4: when the first part matches the prefix up to letter case, the number *)
(* of parts decides: one part is "Token missing", more than two is "Token   *)
(* contains spaces", two parts return the second part unchanged; and the    *)
(* call of get_token changes nothing of the request but the caller's token. *)
C4_ByPartCount ==
    \A r \in Requests :
        (/\ Called(r) /\ Carried(r) /\ NWords(Value(r)) >= 1
         /\ SameIgnoringCase(Word(Value(r), 1), Prefix)) =>
            CASE NWords(Value(r)) = 1 ->
                    /\ RaisedByGetToken(r) /\ IsInvalidHeader(exc[r])
                    /\ Says(exc[r], "Token missing")
              [] NWords(Value(r)) > 2 ->
                    /\ RaisedByGetToken(r) /\ IsInvalidHeader(exc[r])
                    /\ Says(exc[r], "Token contains spaces")
              [] OTHER ->
                    /\ ~RaisedByGetToken(r)
                    /\ token[r] # None => token[r] = Str(Word(Value(r), 2))

C4_NoSideEffect ==
    \A r \in Requests :
        (Active(r) /\ plan[r] # <<>> /\ Head(plan[r]) = "auth" /\ plan'[r] # plan[r]) =>
            /\ headers' = headers /\ stack' = stack /\ attached' = attached
            /\ verdict' = verdict /\ seen' = seen /\ response' = response

\* C4: the part count decides the result of get_token, in every state, and
\* the call of get_token has no side effect on the request, in every step
C4_GetToken == []C4_ByPartCount /\ [][C4_NoSideEffect]_vars

\* a token was returned from a header with more whitespace than one blank
C4_Witness ==
    \E r \in Requests :
        /\ Called(r) /\ Carried(r) /\ NWords(Value(r)) = 2
        /\ Len(Value(r)) > Len(Word(Value(r), 1)) + Len(Word(Value(r), 2)) + 1
        /\ Word(Value(r), 1) # Prefix
        /\ token[r] = Str(Word(Value(r), 2))

---------------------------------------------------------------------------
(* C5: when the collaborator rejects the token with message M, the request  *)
(* fails with the invalid-token CognitoAuthError, status 401, whose         *)
(* description is M.                                                        *)
C5_RejectedToken ==
    \A r \in Requests :
        (Active(r) /\ verdict[r] # None /\ ~verdict[r].ok) =>
            /\ exc[r].t = "CognitoAuthError"
            /\ exc[r].error = "Invalid Cognito Authentication Token"
            /\ exc[r].status_code = 401
            /\ exc[r].description = [text |-> verdict[r].exc, args |-> <<>>]

\* the collaborator found a token expired, and the application answered
C5_Witness ==
    \E r \in Requests :
        /\ Active(r) /\ verdict[r] # None /\ ~verdict[r].ok
        /\ verdict[r].exc = "Token is expired"
        /\ response[r] # None

(* C6: when the collaborator accepts the token, no error is raised and the  *)
(* request context holds the claims it returned as the current principal    *)
(* and null as the secondary identity.                                      *)
C6_AcceptedToken ==
    \A r \in Requests :
        (Active(r) /\ verdict[r] # None /\ verdict[r].ok) =>
            /\ exc[r] = None
            /\ Top(r) # None
            /\ {"current_cognito_user", "current_cognito_identity"} \subseteq DOMAIN Top(r).attrs
            /\ cognito_user(r) = verdict[r].val
            /\ cognito_identity(r) = None

\* an accepted request ran to its answer
C6_Witness ==
    \E r \in Requests :
        /\ Active(r) /\ verdict[r] # None /\ verdict[r].ok
        /\ cognito_user(r) = Claims("alice")
        /\ response[r] # None /\ response[r].status = 200

(* C7: init_app with region, user-pool id or app-client id empty or absent  *)
(* raises an error naming such an option, stores no extension and registers *)
(* no error handler; with the three present and no optional option set it   *)
(* yields "Authorization", "Bearer" and expiration checking on.             *)
EmptyOrAbsent(cfg, k) == k \notin DOMAIN cfg \/ cfg[k] = None \/ cfg[k] = Str(<<>>)

C7_InitStep ==
    (phase = "boot" /\ phase' # "boot") =>
        LET missing == {k \in RequiredCoordinates : EmptyOrAbsent(config, k)}
        IN  /\ missing # {} =>
                /\ phase' = "aborted"
                /\ initexc'.t = "Exception"
                /\ initexc'.msg.args \in {<<k>> : k \in missing}
                /\ extensions' = extensions
                /\ "cognito_auth" \notin DOMAIN extensions'
                /\ errhandlers' = {}
            /\ (missing = {} /\ DOMAIN config \cap OptionalOptions = {}) =>
                /\ phase' = "serving"
                /\ initexc' = None
                /\ "cognito_auth" \in DOMAIN extensions'
                /\ extensions'["cognito_auth"].jwt_header_name = Str(Authorization)
                /\ extensions'["cognito_auth"].jwt_header_prefix = Str(Bearer)
                /\ extensions'["cognito_auth"].check_expiration = Bool(TRUE)

\* C7: every step of init_app aborts on a missing coordinate, naming it, and
\* yields the defaults when the three are set and nothing is overridden
C7_InitApp == [][C7_InitStep]_vars

\* init_app stopped at an empty app-client id, the other two being set
C7_Witness ==
    /\ phase = "aborted"
    /\ initexc.msg.args = <<"COGNITO_APP_CLIENT_ID">>
    /\ "COGNITO_APP_CLIENT_ID" \in DOMAIN config
    /\ config["COGNITO_APP_CLIENT_ID"] = Str(<<>>)

(* C8: a view wrapped by cognito_auth_required is invoked only once the     *)
(* decorator's _cognito_auth_required has returned in the same request, and *)
(* then reads the principal attached; when that call raises, the view is    *)
(* not invoked and the error is what the request ends with; the view runs   *)
(* once at most, and once when the request ends without error.              *)
C8_GateBeforeView ==
    \A r \in Requests :
        (Active(r) /\ Wrapped(route[r])) =>
            /\ Len(seen[r]) <= 1
            /\ Len(seen[r]) = 1 =>
                  /\ Len(attached[r]) >= GateCall(route[r])
                  /\ seen[r][1].user # None
                  /\ seen[r][1].user = attached[r][GateCall(route[r])]
            /\ (plan[r] = <<>> /\ Len(attached[r]) < GateCall(route[r])) =>
                  /\ exc[r] # None
                  /\ seen[r] = <<>>
                  /\ response[r] # None => response[r].status # 200
            /\ (plan[r] = <<>> /\ exc[r] = None) => Len(seen[r]) = 1

\* a decorated view ran after the decorator authenticated the request
C8_Witness ==
    \E r \in Requests :
        /\ route[r] = "gate" /\ plan[r] = <<>> /\ exc[r] = None
        /\ Len(seen[r]) = 1 /\ seen[r][1].user = Claims("carol")

(* C9: when _cognito_auth_required succeeds twice in one request, by the    *)
(* decorator and by a direct call in either order, the principal attached   *)
(* after the second call is the one attached after the first.               *)
C9_SamePrincipalTwice ==
    \A r \in Requests :
        (Active(r) /\ Len(attached[r]) >= 2) =>
            /\ attached[r][2] = attached[r][1]
            /\ attached[r][1] # None
            /\ cognito_user(r) = attached[r][1]

\* the direct call came first, the decorator second, and the view ran
C9_Witness ==
    \E r \in Requests :
        /\ route[r] = "manual_gate" /\ Len(attached[r]) = 2 /\ Len(seen[r]) = 1

(* C10: what a request reads through cognito_user is null or the claims of  *)
(* its own token, whatever the other requests do; outside a request, and in *)
(* a request not authenticated yet, it is null; and no step of a request    *)
(* changes the application's configuration.                                 *)
OwnPrincipals(r) ==
    IF Carried(r) /\ NWords(Value(r)) = 2
    THEN {d.val : d \in {x \in cognito_jwt_decode(Str(Word(Value(r), 2)), Cog.region,
                                   Cog.app_client_id, Cog.userpool_id,
                                   ~Truthy(Cog.check_expiration)) : x.ok}}
    ELSE {}

C10_OwnPrincipal ==
    \A r \in Requests :
        /\ ~Active(r) => (cognito_user(r) = None /\ cognito_identity(r) = None)
        /\ Active(r) =>
              /\ attached[r] = <<>> => (cognito_user(r) = None /\ cognito_identity(r) = None)
              /\ cognito_user(r) \in {None} \cup OwnPrincipals(r)
              /\ \A i \in 1..Len(seen[r]) : seen[r][i].user \in {None} \cup OwnPrincipals(r)

C10_ConfigReadOnly ==
    phase = "serving" =>
        (config' = config /\ extensions' = extensions /\ errhandlers' = errhandlers)

\* C10: a request reads null or its own principal, in every state, and no
\* step taken while serving changes the shared configuration
C10_Isolation == []C10_OwnPrincipal /\ [][C10_ConfigReadOnly]_vars

\* two requests in flight, each with the principal of its own token
C10_Witness ==
    \E r1, r2 \in Requests :
        /\ Active(r1) /\ Active(r2)
        /\ cognito_user(r1) = Claims("alice")
        /\ cognito_user(r2) = Claims("bob")

====
